---- MODULE Spec2Model ----
\* ClassMate: the PDF question-answering service (server/services/pdfService.js)
\* and its chat route (server/routes/pdfChat.js), as a state machine.
\*
\* Node runs one continuation at a time: an action is the code that runs between
\* two awaits of one request.  The external collaborators (MongoDB through
\* mongoose, the embedding service, the generation model, node-cache) are
\* modelled by what the code relies on them to do.
EXTENDS Integers, Sequences, FiniteSets, TLC

\* ---------------------------------------------------------------- bounds
MaxChunks == 4      \* chunks of the largest document
MaxChats == 2       \* chat requests started in one run
TickStep == 3600    \* seconds the clock advances in one step
MaxTime == 7200     \* the clock stops here
MaxSplit == 11      \* chunks of the largest uploaded document
MaxUploads == 3     \* upload requests in one run
MaxHistory == 2     \* turns of the longest history passed to a call
MaxDocs == 2        \* documents uploaded to the two services
MaxRequests == 4    \* requests given to the two services
MaxIntake == 2      \* uploads of arbitrary files in one run
MaxAccess == 4      \* requests with an x-user-id header in one run
MaxPath == 6        \* characters of the longest path given to processPdf
MaxPages == 4       \* pages of the largest document the viewer loads
MaxRetries == 2     \* clicks on Retry in one run
MaxEvents == 5      \* handler runs of the chat view in one run

\* ----------------------------------------------------- program constants
stdTTL == 3600      \* new NodeCache({ stdTTL: 3600 })
TopK == 3           \* vectorStore.similaritySearch(question, 3)
undefined == 0      \* JavaScript's undefined, as read from a missing field
BatchSize == 10     \* processChunksInBatches(chunks, batchSize = 10)
FileSizeLimit == 10485760    \* limits: { fileSize: 10 * 1024 * 1024 }

Files == {"f1"}
Procs == {"p1", "p2"}
Questions == {"qa", "qb"}
Answers == {"a1", "a2"}

VARIABLES
  now,          \* the clock, in seconds
  numChunks,    \* [Files -> Nat]: chunks the splitter yields for the raw file
  records,      \* files that have a PdfDocument record
  dbChunks,     \* [Files -> Seq(metadata)]: documentChunks of the record
  chatHistory,  \* [Files -> Seq(turn)]: chatHistory of the record
  fileOnDisk,   \* files whose raw file is in the uploads directory
  vectorStores, \* [Files -> store]: the module's Map of vector stores
  cache,        \* node-cache: a function from the keys present to entries
  pc,           \* [Procs -> position of the request in the handler]
  rq,           \* [Procs -> the request's local variables]
  nextRid,      \* the next request number
  builds,       \* [Files -> Nat]: MemoryVectorStore.fromDocuments completed
  \* the upload route, with its own uploads directory, collection and registry
  upl,          \* the upload request in flight and its local variables
  uploaded,     \* the uploads answered so far, in order (kept for the properties)
  upDisk,       \* names of the files in the uploads directory
  upRecords,    \* PdfDocument records by file name
  upStores,     \* vector stores by registry key
  lastSearch,   \* the latest similarity search on a registered store
  \* two calls of chatWithPdf side by side
  calls,        \* [CallIds -> the arguments and local variables of the call]
  \* the service with its cache and the service with the cache taken out, given
  \* the same requests one after the other
  cached,       \* the service as it is
  plain,        \* the service without cache.get and cache.set
  requests,     \* number of requests handled
  skipped,      \* the cache has served a chat while search or generation failed
  \* the routes of pdfChat.js with the x-user-id header
  service,      \* the records, the uploads directory, the registry and the cache
  owners,       \* the userId field of each record
  lastReq,      \* the latest request: route, x-user-id header, document
  finds,        \* calls of PdfDocument.findOne so far
  \* one call of processPdf with an arbitrary path
  filePath,     \* the argument, a sequence of characters
  pathPc,       \* the position of the call
  fsAccessed,   \* the paths given to fs.access and fs.readFile
  pathStores,   \* the registry keys set by the call
  \* the PdfViewer component under its parent PdfChat
  numPages,     \* pages of the loaded document, 0 before the first load
  pageNumber,   \* the page the viewer shows
  currentPage,  \* the parent's currentPage, passed as a prop
  error,        \* the viewer's error message, or null
  viewerKey,    \* the key of the Document element, raised by Retry
  \* the PdfChat component and its ChatInterface
  input,        \* the text in the input field
  session,      \* the signed-in user's id, or null
  loading,      \* the loading flag
  messages,     \* the message list shown
  pending,      \* chat requests sent and not yet settled
  serverHistory, \* the chatHistory of the document's record
  event         \* the latest handler run and the number of handler runs

chatVars == <<now, numChunks, records, dbChunks, chatHistory, fileOnDisk,
              vectorStores, cache, pc, rq, nextRid, builds>>

uploadVars == <<upl, uploaded, upDisk, upRecords, upStores, lastSearch>>

twinVars == <<cached, plain, requests, skipped>>

accessVars == <<service, owners, lastReq, finds>>

pathVars == <<filePath, pathPc, fsAccessed, pathStores>>

viewerVars == <<numPages, pageNumber, currentPage, error, viewerKey>>

chatViewVars == <<input, session, loading, messages, pending, serverHistory,
                  event>>

frontVars == <<accessVars, pathVars, viewerVars, chatViewVars>>

notChatVars == <<uploadVars, calls, twinVars, frontVars>>

notUploadVars == <<chatVars, calls, twinVars, frontVars>>

notCallVars == <<chatVars, uploadVars, twinVars, frontVars>>

notTwinVars == <<chatVars, uploadVars, calls, frontVars>>

notAccessVars == <<chatVars, uploadVars, calls, twinVars, pathVars, viewerVars,
                   chatViewVars>>

notPathVars == <<chatVars, uploadVars, calls, twinVars, accessVars, viewerVars,
                 chatViewVars>>

notViewerVars == <<chatVars, uploadVars, calls, twinVars, accessVars, pathVars,
                   chatViewVars>>

notViewVars == <<chatVars, uploadVars, calls, twinVars, accessVars, pathVars>>

vars == <<chatVars, uploadVars, calls, twinVars, frontVars>>

\* ------------------------------------------------------------- ingestion
Min(a, b) == IF a < b THEN a ELSE b

With(fn, k, v) == [x \in DOMAIN fn \cup {k} |-> IF x = k THEN v ELSE fn[x]]

Without(fn, k) == [x \in DOMAIN fn \ {k} |-> fn[x]]

\* processPdf: initialChunks, metadata of the chunk at 0-based index i
InitialChunk(f, i) == [source |-> f, pageNumber |-> (i \div 2) + 1]

\* a batch whose pages are counted from the start of the batch
BatchedChunkLocal(c, i) == [source |-> c.source, pageNumber |-> c.pageNumber,
                            page |-> ((i % BatchSize) \div 2) + 1]

\* processChunksInBatches: adds metadata.page, keeps the rest
BatchedChunk(c, i) == [source |-> c.source, pageNumber |-> c.pageNumber,
                       page |-> (i \div 2) + 1]

\* processPdf: documentChunks of a file that splits into n chunks
DocumentChunks(f, n) == [i \in 1..n |-> BatchedChunk(InitialChunk(f, i - 1), i - 1)]

\* documentChunkSchema: metadata keeps `page` (and `location`), other keys are
\* dropped by the schema when the record is stored
StoredChunk(c) == [page |-> c.page]

StoredChunks(chunks) == [i \in 1..Len(chunks) |-> StoredChunk(chunks[i])]

\* --------------------------------------------------------- vector stores
NoStore == [id |-> 0, docs |-> <<>>]

\* a build that leaves out the chunk whose embedding came last
FromDocumentsDropLast(docs, id) == [id |-> id, docs |-> SubSeq(docs, 1, Len(docs) - 1)]

\* MemoryVectorStore.fromDocuments(docs, embeddings): one memory vector per
\* document, each keeping the document's metadata
FromDocuments(docs, id) == [id |-> id, docs |-> docs]

\* the embedder: similarity of the question to the chunk at position i
Similarity(q, i) == IF q = "qa" THEN i ELSE i % 2

\* number of chunks ranked before chunk i: higher similarity first, ties in
\* original order
RankOf(q, n, i) ==
  Cardinality({j \in 1..n : \/ Similarity(q, j) > Similarity(q, i)
                            \/ (Similarity(q, j) = Similarity(q, i) /\ j < i)})

\* vectorStore.similaritySearch(question, k): positions of the k best chunks
SimilaritySearch(store, q, k) ==
  LET n == Len(store.docs)
  IN  [p \in 1..Min(k, n) |-> CHOOSE i \in 1..n : RankOf(q, n, i) = p - 1]

\* doc.metadata.pageNumber
PageNumberOf(m) == IF "pageNumber" \in DOMAIN m THEN m.pageNumber ELSE undefined

\* .sort((a, b) => a - b): ascending, undefined last
RECURSIVE SortAscending(_)
SortAscending(S) ==
  IF S = {} THEN <<>>
  ELSE IF S = {undefined} THEN <<undefined>>
  ELSE LET m == CHOOSE x \in S \ {undefined} : \A y \in S \ {undefined} : x <= y
       IN  <<m>> \o SortAscending(S \ {m})

\* cache.get of a key that is absent or expired: no result
NoResult == [answer |-> "none", sourcePages |-> <<>>, sources |-> <<>>]

\* chatWithPdf: the result object built from the retrieved documents
BuildResult(store, retrieved, answer) ==
  [answer |-> answer,
   sourcePages |-> SortAscending({PageNumberOf(store.docs[retrieved[p]]) :
                                    p \in 1..Len(retrieved)}),
   sources |-> [p \in 1..Len(retrieved) |->
                  [page |-> PageNumberOf(store.docs[retrieved[p]]),
                   content |-> retrieved[p]]]]

\* ----------------------------------------------------------------- cache
\* a prompt that also carries the history
PromptForWithHistory(context, question, history) ==
  [context |-> context, question |-> question, history |-> history]

\* the chain's input: context: () => context, question: (input) => input.question
PromptFor(context, question, history) ==
  [context |-> context, question |-> question]

\* retrievedDocs.map(doc => doc.pageContent).join: the contents in rank order
ContextOf(store, retrieved) == retrieved

\* a key that leaves the history length out
CacheKeyNoLength(f, q, len) == <<f, q, 0>>

\* `pdf_query_${filename}_${question}_${chatHistory.length}`
CacheKey(f, q, len) == <<f, q, len>>

\* an entry that never expires
ExpiredNever(entry, t) == FALSE

\* a key that leaves the question out
KeyForAnyQuestion(filename, question, history) ==
  CacheKey(filename, "qa", Len(history))

\* const cacheKey = ...: of the history only the length enters
KeyFor(filename, question, history) ==
  CacheKey(filename, question, Len(history))

\* node-cache: an entry is expired when its expiry time lies before now
Expired(entry, t) == entry.t < t

\* a lookup that never finds the entry
CacheGetMiss(c, key, t) == NoResult

\* cache.get(cacheKey)
CacheGet(c, key, t) ==
  IF key \in DOMAIN c /\ ~Expired(c[key], t) THEN c[key].v ELSE NoResult

\* cache.get deletes the entry it finds expired
CachePurge(c, key, t) ==
  IF key \in DOMAIN c /\ Expired(c[key], t)
  THEN [k \in DOMAIN c \ {key} |-> c[k]]
  ELSE c

\* cache.set(cacheKey, result): the entry expires stdTTL after t.  With the
\* entry are kept, for the properties, when it was stored, the number of the
\* request that stored it and what that request asked
CacheSet(c, key, v, t, rid, ask) ==
  [k \in DOMAIN c \cup {key} |->
     IF k = key
     THEN [v |-> v, t |-> t + stdTTL, s |-> t, by |-> rid, ask |-> ask]
     ELSE c[k]]

\* --------------------------------------------------------- chat history
\* messageSchema: the fields a stored turn keeps
MessageFields == {"role", "content", "sourcePages", "timestamp"}

MessageCast(t) == [k \in DOMAIN t \cap MessageFields |-> t[k]]

UserTurn(q, rid) == [role |-> "user", content |-> q, timestamp |-> rid]

AssistantTurn(res, rid) ==
  [role |-> "assistant", content |-> res.answer, sourcePages |-> res.sourcePages,
   sources |-> res.sources, timestamp |-> rid]

\* pdf.chatHistory.push(...) twice
Pushed(q, res, rid) == <<MessageCast(UserTurn(q, rid)), MessageCast(AssistantTurn(res, rid))>>

\* a save that writes back the array it loaded, with the two turns added
SaveHistoryOverwrite(stored, loaded, pushed) == loaded \o pushed

\* pdf.save(): mongoose sends the pushed turns as one atomic $push
SaveHistory(stored, loaded, pushed) == stored \o pushed

NoEntry == [v |-> NoResult, by |-> 0]

\* what a request saw at cache.get (kept for the properties): how long before
\* the lookup the entry under the key was stored (-1 without an entry),
\* whether the entry was returned, who stored it and for which question
NoLook == [age |-> -1, hit |-> FALSE, by |-> 0, ask |-> <<>>]

\* pdfDoc.documentChunks && pdfDoc.documentChunks.length > 0, never true
HasStoredChunksNever(chunks) == FALSE

\* pdfDoc.documentChunks && pdfDoc.documentChunks.length > 0
HasStoredChunks(chunks) == chunks # <<>>

\* a handler that starts the rejected generation over
OnRejectRetry(p) == IF p = "generating" THEN "searching" ELSE "failed"

\* catch (error) { ...; throw error } and the route's catch: the request ends
OnReject(p) == "failed"

\* the documents tried: one chunk, and more chunks than a search retrieves
ChunkCounts == {1, MaxChunks}

\* ------------------------------------------------------------------ Init
IdleRq == [rid |-> 0, file |-> "f1", question |-> "qa", hist |-> <<>>,
           docs |-> <<>>, store |-> NoStore, retrieved |-> <<>>, result |-> NoResult,
           pushed |-> <<>>, liveAtStart |-> NoEntry, pre |-> {}, missed |-> FALSE,
           searched |-> 0, gen |-> 0, nsearch |-> 0, look |-> NoLook]

\* multer's filename: Date.now() + '-' + random + extension, here the number of
\* the upload; a name is a path without directory
UploadName(k) == <<"", k>>

\* no upload in flight; results is what the last batch loop left behind
IdleUpload == [pc |-> "idle", file |-> UploadName(0), n |-> 0, initial |-> <<>>, i |-> 0,
               results |-> <<>>, type |-> "none", size |-> 0, numpages |-> 0]

\* the turns a history can hold
Turns == [role : {"user"}, content : Questions]
           \cup [role : {"assistant"}, content : Answers]

\* the histories a call can be given
Histories == UNION {[1..k -> Turns] : k \in 0..MaxHistory}

CallIds == {"A", "B"}

\* chatWithPdf(filename, question, chatHistory) as it is entered
NewCall(q, h) == [pc |-> "called", question |-> q, hist |-> h, key |-> <<>>,
                  retrieved |-> <<>>, prompt |-> <<>>]

NoSearch == [file |-> UploadName(0), question |-> "none", retrieved |-> <<>>]

\* the chat service after construction, over the records and files left by
\* earlier runs
InitChat ==
  /\ now = 0
  /\ numChunks \in [Files -> ChunkCounts]
  /\ records \in SUBSET Files
  /\ fileOnDisk \in SUBSET Files
  /\ \E legacy \in SUBSET Files :
       dbChunks = [f \in Files |->
                     IF f \in records /\ f \notin legacy
                     THEN StoredChunks(DocumentChunks(f, numChunks[f]))
                     ELSE <<>>]
  /\ chatHistory = [f \in Files |-> <<>>]
  /\ vectorStores = [f \in Files |-> NoStore]
  /\ cache = <<>>
  /\ pc = [r \in Procs |-> "idle"]
  /\ rq = [r \in Procs |-> IdleRq]
  /\ nextRid = 1
  /\ builds = [f \in Files |-> 0]

\* the upload route before its first request
InitUploads ==
  /\ upl = IdleUpload
  /\ uploaded = <<>>
  /\ upDisk = {}
  /\ upRecords = <<>>
  /\ upStores = <<>>
  /\ lastSearch = NoSearch

\* a service before its first request: no records, no files, empty registry
\* and cache; out is its latest response
NewService == [recs |-> <<>>, disk |-> {}, stores |-> <<>>, cache |-> <<>>,
               out |-> [status |-> 0], hit |-> FALSE, nsearch |-> 0, ngen |-> 0]

InitTwins ==
  /\ cached = NewService
  /\ plain = NewService
  /\ requests = 0
  /\ skipped = FALSE

\* the routes before their first request
NoUser == ""
NoRequest == [op |-> "none", userId |-> NoUser, name |-> UploadName(0), n |-> 0]

InitAccess ==
  /\ service = NewService
  /\ owners = <<>>
  /\ lastReq = NoRequest
  /\ finds = 0

\* processPdf called with the path p
InitPath(p) ==
  /\ filePath = p
  /\ pathPc = "called"
  /\ fsAccessed = {}
  /\ pathStores = {}

\* the viewer as mounted by PdfChat
null == "null"

InitViewer ==
  /\ numPages = 0
  /\ currentPage = 1
  /\ pageNumber = 1
  /\ error = null
  /\ viewerKey = 0

\* the chat view once the history is loaded, for a new document
InitChatView ==
  /\ input = ""
  /\ session = "u1"
  /\ loading = FALSE
  /\ messages = <<>>
  /\ pending = 0
  /\ serverHistory = <<>>
  /\ event = [kind |-> "mount", n |-> 0]

Init ==
  /\ InitChat
  /\ InitUploads
  /\ InitTwins
  /\ InitAccess
  /\ InitPath(<<>>)
  /\ InitViewer
  /\ InitChatView
  /\ calls = [c \in CallIds |-> NewCall("qa", <<>>)]

\* ------------------------------------------------- POST /:id/chat, step by step
Awaiting == {"route_find", "find_chunks", "ingest_read", "ingest_embed",
             "embedding", "searching", "generating", "saving"}

\* the handler has returned: its stores and documents are out of scope; what
\* the request asked and was answered is kept for the properties
Answered(loc) ==
  [IdleRq EXCEPT !.rid = loc.rid, !.file = loc.file, !.question = loc.question,
                 !.hist = loc.hist, !.result = loc.result, !.pushed = loc.pushed,
                 !.liveAtStart = loc.liveAtStart, !.gen = loc.gen]

\* the handler has answered with an error
Refused(loc) == [IdleRq EXCEPT !.rid = loc.rid, !.file = loc.file]

Free == {"idle", "done", "failed"}

\* requests are interchangeable: a new one takes the first free slot
SlotBefore(o, r) == o = "p1" /\ r = "p2"

\* a request arrives on a connection whose previous request has been answered;
\* it carries a user id, and PdfDocument.findOne is sent
ChatBegin(r, f, q) ==
  /\ pc[r] \in Free
  /\ \A o \in Procs : SlotBefore(o, r) => pc[o] \notin Free
  /\ nextRid <= MaxChats
  /\ rq' = [rq EXCEPT ![r] = [IdleRq EXCEPT !.rid = nextRid, !.file = f, !.question = q]]
  /\ pc' = [pc EXCEPT ![r] = "route_find"]
  /\ nextRid' = nextRid + 1
  /\ UNCHANGED <<now, numChunks, records, dbChunks, chatHistory, fileOnDisk,
                 vectorStores, cache, builds>>
  /\ UNCHANGED notChatVars

\* the entry stored under the key less than stdTTL ago, as the call starts
\* (kept for the properties)
LiveEntry(key) ==
  IF key \in DOMAIN cache /\ now < cache[key].t
  THEN [v |-> cache[key].v, by |-> cache[key].by]
  ELSE NoEntry

\* chatWithPdf from the cache lookup to the next await; on a hit the route pushes
\* the two turns and sends pdf.save()
Lookup(r, loc) ==
  LET key == KeyFor(loc.file, loc.question, loc.hist)
      hit == CacheGet(cache, key, now)
      look == IF key \in DOMAIN cache
              THEN [age |-> now - cache[key].s, hit |-> hit # NoResult,
                    by |-> cache[key].by, ask |-> cache[key].ask]
              ELSE NoLook
  IN  /\ cache' = CachePurge(cache, key, now)
      /\ IF hit # NoResult
         THEN /\ rq' = [rq EXCEPT ![r] =
                          [loc EXCEPT !.result = hit, !.look = look,
                                      !.pushed = Pushed(loc.question, hit, loc.rid)]]
              /\ pc' = [pc EXCEPT ![r] = "saving"]
         ELSE /\ rq' = [rq EXCEPT ![r] =
                          [loc EXCEPT !.look = look, !.nsearch = @ + 1]]
              /\ pc' = [pc EXCEPT ![r] = "searching"]

\* the route's findOne resolves: 404 without a record or a raw file, else
\* chatWithPdf runs to its first await
RouteFind(r) ==
  /\ pc[r] = "route_find"
  /\ LET f == rq[r].file
         loc == [rq[r] EXCEPT !.hist = chatHistory[f],
                              !.liveAtStart =
                                 LiveEntry(CacheKey(f, rq[r].question, Len(chatHistory[f]))),
                              !.pre = {"registry"},
                              !.store = vectorStores[f],
                              !.missed = (vectorStores[f] = NoStore)]
     IN  \/ /\ (f \notin records \/ f \notin fileOnDisk)
            /\ pc' = [pc EXCEPT ![r] = "failed"]
            /\ rq' = [rq EXCEPT ![r] = Refused(rq[r])]
            /\ UNCHANGED cache
         \/ /\ f \in records /\ f \in fileOnDisk
            /\ vectorStores[f] # NoStore
            /\ Lookup(r, loc)
         \/ /\ f \in records /\ f \in fileOnDisk
            /\ vectorStores[f] = NoStore
            /\ rq' = [rq EXCEPT ![r] = loc]
            /\ pc' = [pc EXCEPT ![r] = "find_chunks"]
            /\ UNCHANGED cache
  /\ UNCHANGED <<now, numChunks, records, dbChunks, chatHistory, fileOnDisk,
                 vectorStores, nextRid, builds>>
  /\ UNCHANGED notChatVars

\* chatWithPdf's findOne resolves: stored chunks are embedded again, a record
\* without chunks goes through processPdf
FindChunks(r) ==
  /\ pc[r] = "find_chunks"
  /\ LET f == rq[r].file
     IN  \/ /\ f \notin records
            /\ pc' = [pc EXCEPT ![r] = "failed"]
            /\ rq' = [rq EXCEPT ![r] = Refused(rq[r])]
         \/ /\ f \in records /\ HasStoredChunks(dbChunks[f])
            /\ rq' = [rq EXCEPT ![r].docs = dbChunks[f], ![r].pre = @ \cup {"record", "embed"}]
            /\ pc' = [pc EXCEPT ![r] = "embedding"]
         \/ /\ f \in records /\ ~HasStoredChunks(dbChunks[f])
            /\ rq' = [rq EXCEPT ![r].pre = @ \cup {"record"}]
            /\ pc' = [pc EXCEPT ![r] = "ingest_read"]
  /\ UNCHANGED <<now, numChunks, records, dbChunks, chatHistory, fileOnDisk,
                 vectorStores, cache, nextRid, builds>>
  /\ UNCHANGED notChatVars

\* processPdf: the file is read, parsed, split and tagged with pages
IngestRead(r) ==
  /\ pc[r] = "ingest_read"
  /\ LET f == rq[r].file
     IN  \/ /\ f \notin fileOnDisk
            /\ pc' = [pc EXCEPT ![r] = "failed"]
            /\ rq' = [rq EXCEPT ![r] = Refused(rq[r])]
         \/ /\ f \in fileOnDisk
            /\ rq' = [rq EXCEPT ![r].docs = DocumentChunks(f, numChunks[f]),
                                ![r].pre = @ \cup {"file", "embed"}]
            /\ pc' = [pc EXCEPT ![r] = "ingest_embed"]
  /\ UNCHANGED <<now, numChunks, records, dbChunks, chatHistory, fileOnDisk,
                 vectorStores, cache, nextRid, builds>>
  /\ UNCHANGED notChatVars

\* processPdf: fromDocuments resolves, the store is registered, and chatWithPdf
\* calls fromDocuments on the returned chunks
IngestEmbed(r) ==
  /\ pc[r] = "ingest_embed"
  /\ LET f == rq[r].file
     IN  /\ builds' = [builds EXCEPT ![f] = @ + 1]
         /\ vectorStores' = [vectorStores EXCEPT ![f] = FromDocuments(rq[r].docs, builds[f] + 1)]
  /\ pc' = [pc EXCEPT ![r] = "embedding"]
  /\ UNCHANGED <<now, numChunks, records, dbChunks, chatHistory, fileOnDisk,
                 cache, rq, nextRid>>
  /\ UNCHANGED notChatVars

\* chatWithPdf: fromDocuments resolves, the store is registered, then the cache
\* is looked up
EmbedDone(r) ==
  /\ pc[r] = "embedding"
  /\ LET f == rq[r].file
         st == FromDocuments(rq[r].docs, builds[f] + 1)
     IN  /\ builds' = [builds EXCEPT ![f] = @ + 1]
         /\ vectorStores' = [vectorStores EXCEPT ![f] = st]
         /\ Lookup(r, [rq[r] EXCEPT !.store = st])
  /\ UNCHANGED <<now, numChunks, records, dbChunks, chatHistory, fileOnDisk,
                 nextRid>>
  /\ UNCHANGED notChatVars

\* similaritySearch resolves; the prompt is built and chain.invoke is sent
Search(r) ==
  /\ pc[r] = "searching"
  /\ rq' = [rq EXCEPT ![r].retrieved = SimilaritySearch(rq[r].store, rq[r].question, TopK),
                      ![r].searched = rq[r].store.id,
                      ![r].gen = @ + 1]
  /\ pc' = [pc EXCEPT ![r] = "generating"]
  /\ UNCHANGED <<now, numChunks, records, dbChunks, chatHistory, fileOnDisk,
                 vectorStores, cache, nextRid, builds>>
  /\ UNCHANGED notChatVars

\* chain.invoke resolves: the result is built, cached and returned; the route
\* pushes the two turns and sends pdf.save()
Generate(r, answer) ==
  /\ pc[r] = "generating"
  /\ LET loc == rq[r]
         res == BuildResult(loc.store, loc.retrieved, answer)
         key == KeyFor(loc.file, loc.question, loc.hist)
     IN  /\ cache' = CacheSet(cache, key, res, now, loc.rid,
                             <<loc.file, loc.question, Len(loc.hist)>>)
         /\ rq' = [rq EXCEPT ![r].result = res,
                             ![r].pushed = Pushed(loc.question, res, loc.rid)]
  /\ pc' = [pc EXCEPT ![r] = "saving"]
  /\ UNCHANGED <<now, numChunks, records, dbChunks, chatHistory, fileOnDisk,
                 vectorStores, nextRid, builds>>
  /\ UNCHANGED notChatVars

\* pdf.save() resolves; the response is sent
Save(r) ==
  /\ pc[r] = "saving"
  /\ chatHistory' = [chatHistory EXCEPT ![rq[r].file] =
                       SaveHistory(@, rq[r].hist, rq[r].pushed)]
  /\ pc' = [pc EXCEPT ![r] = "done"]
  /\ rq' = [rq EXCEPT ![r] = Answered(rq[r])]
  /\ UNCHANGED <<now, numChunks, records, dbChunks, fileOnDisk, vectorStores,
                 cache, nextRid, builds>>
  /\ UNCHANGED notChatVars

\* an awaited call rejects: the catch block answers 500
Fail(r) ==
  /\ pc[r] \in Awaiting
  /\ pc' = [pc EXCEPT ![r] = OnReject(pc[r])]
  /\ rq' = [rq EXCEPT ![r] = IF OnReject(pc[r]) = "failed" THEN Refused(rq[r]) ELSE rq[r]]
  /\ UNCHANGED <<now, numChunks, records, dbChunks, chatHistory, fileOnDisk,
                 vectorStores, cache, nextRid, builds>>
  /\ UNCHANGED notChatVars

\* time passes
Tick ==
  /\ now + TickStep <= MaxTime
  /\ now' = now + TickStep
  /\ UNCHANGED <<numChunks, records, dbChunks, chatHistory, fileOnDisk,
                 vectorStores, cache, pc, rq, nextRid, builds>>
  /\ UNCHANGED notChatVars

Next ==
  \/ \E r \in Procs, f \in Files, q \in Questions : ChatBegin(r, f, q)
  \/ \E r \in Procs : RouteFind(r)
  \/ \E r \in Procs : FindChunks(r)
  \/ \E r \in Procs : IngestRead(r)
  \/ \E r \in Procs : IngestEmbed(r)
  \/ \E r \in Procs : EmbedDone(r)
  \/ \E r \in Procs : Search(r)
  \/ \E r \in Procs, a \in Answers : Generate(r, a)
  \/ \E r \in Procs : Save(r)
  \/ \E r \in Procs : Fail(r)
  \/ Tick

Spec == Init /\ [][Next]_vars

\* ------------------------------------------------ POST /upload, step by step
\* chunk counts the splitter yields for the uploaded documents
SplitCounts == {1, MaxSplit}

\* path.join(uploadsDir, filename): the path multer hands to the route
FullPath(f) == <<"uploads", f[2]>>

\* results array of a batch loop that goes on where the last one stopped
NewResultsKept(prev) == prev

\* const results = []
NewResults(prev) == <<>>

\* chunks.slice(i, i + batchSize).map((chunk, index) => ...), pushed on results
PushBatch(results, chunks, i) ==
  LET last == Min(i + BatchSize, Len(chunks))
  IN  results \o [index \in 1..(last - i) |->
                    BatchedChunk(chunks[i + index], i + index - 1)]

\* a registry that is given the store before the embeddings have arrived
ProcessPdfEmbedEager(stores, f, docs, ok) ==
  [k \in DOMAIN stores \cup {f} |->
     IF k = f THEN FromDocuments(docs, 1) ELSE stores[k]]

\* processPdf: await MemoryVectorStore.fromDocuments, then vectorStores.set
ProcessPdfEmbed(stores, f, docs, ok) ==
  IF ok
  THEN [k \in DOMAIN stores \cup {f} |->
          IF k = f THEN FromDocuments(docs, 1) ELSE stores[k]]
  ELSE stores

\* cleanupFile: fs.unlink(path) removes the file
CleanupDisk(disk, f) == disk \ {f}

\* cleanupFile: vectorStores.delete(normalizedPath) removes the entry whose key
\* is the path
CleanupStores(stores, path) == [k \in DOMAIN stores \ {path} |-> stores[k]]

\* a cleanup that lets the failure of fs.unlink through
CleanupFileRaising(disk, stores, f, unlinkOk) ==
  IF unlinkOk
  THEN [disk |-> CleanupDisk(disk, f),
        stores |-> CleanupStores(stores, FullPath(f)), raised |-> FALSE]
  ELSE [disk |-> disk, stores |-> stores, raised |-> TRUE]

\* a cleanup that leaves the file where it is
CleanupFileKeeps(disk, stores, f, unlinkOk) ==
  [disk |-> disk, stores |-> stores, raised |-> FALSE]

\* cleanupFile(filePath) with filePath = FullPath(f): unlink, then
\* vectorStores.delete; when fs.unlink rejects (no such file, no permission)
\* the catch logs and the function returns
CleanupFile(disk, stores, f, unlinkOk) ==
  IF unlinkOk
  THEN [disk |-> CleanupDisk(disk, f),
        stores |-> CleanupStores(stores, FullPath(f)), raised |-> FALSE]
  ELSE [disk |-> disk, stores |-> stores, raised |-> FALSE]

\* a filter that lets every size through
MulterAcceptsAnySize(type, size) == type = "application/pdf"

\* multer: fileFilter on the declared mimetype, limits.fileSize on the bytes
MulterAccepts(type, size) == type = "application/pdf" /\ size <= FileSizeLimit

\* app/api/pdf/upload/route.ts: file.type and file.size checks
FrontAccepts(type, size) == type = "application/pdf" /\ ~(size > FileSizeLimit)

\* pageCount: data.numpages || Math.ceil(docs.length / 2)
PageCount(numpages, n) == IF numpages # 0 THEN numpages ELSE (n + 1) \div 2

\* the answer to an upload, kept for the properties: cause is the awaited call
\* or check that rejected, chunks the documentChunks processPdf returned,
\* unlinked whether cleanupFile was called and whether fs.unlink worked
Outcome(u, status, cause, chunks) ==
  [file |-> u.file, n |-> u.n, status |-> status, cause |-> cause,
   error |-> cause, chunks |-> chunks, type |-> u.type, size |-> u.size,
   pageCount |-> IF chunks = <<>> THEN 0 ELSE PageCount(u.numpages, u.n),
   unlinked |-> "not called", deleted |-> FALSE]

\* the route's catch blocks: cleanupFile, then 500 with the error's message
UploadRejected(cause, stores, chunks, unlinkOk) ==
  LET c == CleanupFile(upDisk, stores, upl.file, unlinkOk)
  IN  /\ uploaded' = Append(uploaded,
                            [Outcome(upl, 500, cause, chunks) EXCEPT
                               !.error = IF c.raised THEN "cleanup" ELSE cause,
                               !.unlinked = IF unlinkOk THEN "yes" ELSE "failed"])
      /\ upDisk' = c.disk
      /\ upStores' = c.stores
      /\ upl' = [IdleUpload EXCEPT !.results = upl.results]

\* a request arrives, through the web application's route or directly.  The
\* route and multer refuse a file of another type or above the size limit
\* before anything is stored; multer stores the others.  A request without
\* user id is answered 400 after cleanupFile, the others call processPdf
UploadBegin(via, type, size, hasUser, unlinkOk) ==
  /\ upl.pc = "idle"
  /\ Len(uploaded) < MaxUploads
  /\ LET f == UploadName(Len(uploaded) + 1)
         u == [upl EXCEPT !.file = f, !.n = 0, !.type = type, !.size = size,
                          !.numpages = 0]
         c == CleanupFile(upDisk \cup {f}, upStores, f, unlinkOk)
     IN  IF via = "front" /\ ~FrontAccepts(type, size)
         THEN /\ uploaded' = Append(uploaded, Outcome(u, 400, "front", <<>>))
              /\ UNCHANGED <<upl, upDisk, upStores>>
         ELSE IF ~MulterAccepts(type, size)
         THEN /\ uploaded' = Append(uploaded, Outcome(u, 500, "multer", <<>>))
              /\ UNCHANGED <<upl, upDisk, upStores>>
         ELSE IF hasUser
         THEN /\ upl' = [u EXCEPT !.pc = "parsing"]
              /\ upDisk' = upDisk \cup {f}
              /\ UNCHANGED <<uploaded, upStores>>
         ELSE /\ uploaded' = Append(uploaded,
                   [Outcome(u, IF c.raised THEN 500 ELSE 400, "user", <<>>) EXCEPT
                      !.error = IF c.raised THEN "cleanup" ELSE "user",
                      !.unlinked = IF unlinkOk THEN "yes" ELSE "failed"])
              /\ upDisk' = c.disk
              /\ upStores' = c.stores
              /\ UNCHANGED upl
  /\ UNCHANGED <<upRecords, lastSearch>>
  /\ UNCHANGED notUploadVars

\* processPdf: the file is read, parsed and split into n chunks, the parser
\* reporting numpages pages (0: none reported); initialChunks are built and the
\* batch loop starts.  A file that cannot be read or parsed rejects
UploadParse(ok, n, numpages, unlinkOk) ==
  /\ upl.pc = "parsing"
  /\ IF ok
     THEN /\ upl' = [upl EXCEPT !.pc = "batching",
                                !.n = n,
                                !.numpages = numpages,
                                !.initial = [k \in 1..n |->
                                               InitialChunk(upl.file, k - 1)],
                                !.i = 0,
                                !.results = NewResults(upl.results)]
          /\ UNCHANGED <<uploaded, upDisk, upStores>>
     ELSE UploadRejected("parsing", upStores, <<>>, unlinkOk)
  /\ UNCHANGED <<upRecords, lastSearch>>
  /\ UNCHANGED notUploadVars

\* processChunksInBatches: one turn of the loop; after the last one
\* fromDocuments is called
UploadBatch ==
  /\ upl.pc = "batching"
  /\ IF upl.i < Len(upl.initial)
     THEN upl' = [upl EXCEPT !.results = PushBatch(upl.results, upl.initial, upl.i),
                             !.i = upl.i + BatchSize]
     ELSE upl' = [upl EXCEPT !.pc = "embedding"]
  /\ UNCHANGED <<uploaded, upDisk, upRecords, upStores, lastSearch>>
  /\ UNCHANGED notUploadVars

\* processPdf: fromDocuments resolves and the store is registered, then
\* PdfDocument.create is sent; or the embedding service fails and it rejects
UploadEmbed(ok, unlinkOk) ==
  /\ upl.pc = "embedding"
  /\ LET stores == ProcessPdfEmbed(upStores, upl.file, upl.results, ok)
     IN  IF ok
         THEN /\ upStores' = stores
              /\ upl' = [upl EXCEPT !.pc = "creating"]
              /\ UNCHANGED <<uploaded, upDisk>>
         ELSE UploadRejected("embedding", stores, <<>>, unlinkOk)
  /\ UNCHANGED <<upRecords, lastSearch>>
  /\ UNCHANGED notUploadVars

\* PdfDocument.create resolves and the route answers 200, or it rejects
UploadCreate(ok, unlinkOk) ==
  /\ upl.pc = "creating"
  /\ IF ok
     THEN /\ upRecords' = [k \in DOMAIN upRecords \cup {upl.file} |->
                             IF k = upl.file
                             THEN [documentChunks |-> StoredChunks(upl.results),
                                   chatHistory |-> <<>>]
                             ELSE upRecords[k]]
          /\ uploaded' = Append(uploaded, Outcome(upl, 200, "none", upl.results))
          /\ upl' = [IdleUpload EXCEPT !.results = upl.results]
          /\ UNCHANGED <<upDisk, upStores>>
     ELSE /\ UploadRejected("create", upStores, upl.results, unlinkOk)
          /\ UNCHANGED upRecords
  /\ UNCHANGED lastSearch
  /\ UNCHANGED notUploadVars

\* a chat on an uploaded document searches its registered store
UploadQuery(f, q) ==
  /\ f \in DOMAIN upStores
  /\ lastSearch' = [file |-> f, question |-> q,
                    retrieved |-> SimilaritySearch(upStores[f], q, TopK)]
  /\ UNCHANGED <<upl, uploaded, upDisk, upRecords, upStores>>
  /\ UNCHANGED notUploadVars

\* uploads of well-formed files by a client of the server, with a working
\* uploads directory and a parser that reports no page count
NextUpload ==
  \/ \E hasUser \in BOOLEAN :
       UploadBegin("direct", "application/pdf", FileSizeLimit, hasUser, TRUE)
  \/ \E ok \in BOOLEAN, n \in SplitCounts : UploadParse(ok, n, 0, TRUE)
  \/ UploadBatch
  \/ \E ok \in BOOLEAN : UploadEmbed(ok, TRUE)
  \/ \E ok \in BOOLEAN : UploadCreate(ok, TRUE)
  \/ \E k \in 1..MaxUploads, q \in Questions : UploadQuery(UploadName(k), q)

\* a fresh installation: no records and no files from earlier runs
FreshInstall ==
  /\ records = {}
  /\ fileOnDisk = {}
  /\ numChunks = [f \in Files |-> 1]

InitUpload == Init /\ FreshInstall

SpecUpload == InitUpload /\ [][NextUpload]_vars

\* -------------------------------------- uploads of any file, and their deletion
Vias == {"front", "direct"}

FileTypes == {"application/pdf", "text/plain"}

FileSizes == {FileSizeLimit, FileSizeLimit + 1}

\* data.numpages: none reported, or one page
NumPages == {0, 1}

\* DELETE /:documentId for the document of upload k, by its owner: the file is
\* cleaned up when it exists, then the record is deleted
UploadDelete(k, unlinkOk) ==
  /\ upl.pc = "idle"
  /\ k \in DOMAIN uploaded
  /\ uploaded[k].file \in DOMAIN upRecords
  /\ LET f == uploaded[k].file
         c == IF f \in upDisk
              THEN CleanupFile(upDisk, upStores, f, unlinkOk)
              ELSE [disk |-> upDisk, stores |-> upStores, raised |-> FALSE]
     IN  /\ upDisk' = c.disk
         /\ upStores' = c.stores
         /\ upRecords' = IF c.raised THEN upRecords ELSE Without(upRecords, f)
         /\ uploaded' = [uploaded EXCEPT
                           ![k].deleted = ~c.raised,
                           ![k].unlinked = IF f \notin upDisk THEN @
                                           ELSE IF unlinkOk THEN "yes" ELSE "failed"]
  /\ UNCHANGED <<upl, lastSearch>>
  /\ UNCHANGED notUploadVars

\* an upload of any file
IntakeBegin(via, type, size, hasUser, unlinkOk) ==
  /\ Len(uploaded) < MaxIntake
  /\ UploadBegin(via, type, size, hasUser, unlinkOk)

NextIntake ==
  \/ \E via \in Vias, type \in FileTypes, size \in FileSizes,
        hasUser \in BOOLEAN, unlinkOk \in BOOLEAN :
       IntakeBegin(via, type, size, hasUser, unlinkOk)
  \/ \E ok \in BOOLEAN, n \in SplitCounts, numpages \in NumPages,
        unlinkOk \in BOOLEAN :
       UploadParse(ok, n, numpages, unlinkOk)
  \/ UploadBatch
  \/ \E ok \in BOOLEAN, unlinkOk \in BOOLEAN : UploadEmbed(ok, unlinkOk)
  \/ \E ok \in BOOLEAN, unlinkOk \in BOOLEAN : UploadCreate(ok, unlinkOk)
  \/ \E k \in 1..MaxIntake, unlinkOk \in BOOLEAN : UploadDelete(k, unlinkOk)

SpecIntake == InitUpload /\ [][NextIntake]_vars

\* ------------------- the service with and without its cache, request by request
\* the generation model, deterministic: the answer is a function of the input
Model(prompt) == <<"answer to", prompt.question, prompt.context>>

Error(status, message) == [status |-> status, error |-> message]

\* POST /upload as a whole, on the service sys: fail names the awaited call
\* that rejects
UploadHandler(sys, name, n, fail) ==
  LET docs == DocumentChunks(name, n)
      stores == ProcessPdfEmbed(sys.stores, name, docs, fail # "embed")
      cleaned == [sys EXCEPT !.disk = CleanupDisk(sys.disk \cup {name}, name),
                             !.stores = CleanupStores(stores, FullPath(name)),
                             !.hit = FALSE,
                             !.out = Error(500, fail)]
  IN  IF fail \in {"embed", "create"}
      THEN cleaned
      ELSE [sys EXCEPT !.disk = sys.disk \cup {name},
                       !.stores = stores,
                       !.recs = With(sys.recs, name,
                                     [documentChunks |-> StoredChunks(docs),
                                      chatHistory |-> <<>>]),
                       !.hit = FALSE,
                       !.out = [status |-> 200, originalName |-> name]]

\* POST /:id/chat as a whole, on the service sys at time t: the route's checks,
\* chatWithPdf, the two pushes, pdf.save() and the response.  useCache is
\* false for the service whose cache.get and cache.set are taken out
ChatHandler(sys, useCache, name, q, fail, rid, t) ==
  IF name \notin DOMAIN sys.recs \/ name \notin sys.disk
  THEN [sys EXCEPT !.out = Error(404, "not found"), !.hit = FALSE]
  ELSE
    LET rec == sys.recs[name]
        store == IF name \in DOMAIN sys.stores
                 THEN sys.stores[name]
                 ELSE FromDocuments(rec.documentChunks, 1)
        key == KeyFor(name, q, rec.chatHistory)
        found == IF useCache THEN CacheGet(sys.cache, key, t) ELSE NoResult
        purged == IF useCache THEN CachePurge(sys.cache, key, t) ELSE sys.cache
        retrieved == SimilaritySearch(store, q, TopK)
        prompt == PromptFor(ContextOf(store, retrieved), q, rec.chatHistory)
        res == IF found # NoResult THEN found
               ELSE BuildResult(store, retrieved, Model(prompt))
        hist == SaveHistory(rec.chatHistory, rec.chatHistory, Pushed(q, res, rid))
        base == [sys EXCEPT !.stores = With(sys.stores, name, store),
                            !.cache = purged,
                            !.hit = found # NoResult]
        searched == [base EXCEPT !.nsearch = @ + 1]
        generated == [searched EXCEPT
                        !.ngen = @ + 1,
                        !.cache = IF useCache
                                  THEN CacheSet(purged, key, res, t, rid,
                                                <<name, q, Len(rec.chatHistory)>>)
                                  ELSE purged]
        returned == IF found # NoResult THEN base ELSE generated
    IN  IF found = NoResult /\ fail = "search"
        THEN [searched EXCEPT !.out = Error(500, fail)]
        ELSE IF found = NoResult /\ fail = "generate"
        THEN [searched EXCEPT !.ngen = @ + 1, !.out = Error(500, fail)]
        ELSE IF fail = "save"
        THEN [returned EXCEPT !.out = Error(500, fail)]
        ELSE [returned EXCEPT
                !.recs = With(sys.recs, name, [rec EXCEPT !.chatHistory = hist]),
                !.out = [status |-> 200, message |-> res.answer,
                         sourcePages |-> res.sourcePages, sources |-> res.sources,
                         chatHistory |-> hist]]

\* DELETE /:documentId as a whole
DeleteHandler(sys, name) ==
  IF name \notin DOMAIN sys.recs
  THEN [sys EXCEPT !.out = Error(404, "not found"), !.hit = FALSE]
  ELSE [sys EXCEPT !.disk = CleanupDisk(sys.disk, name),
                   !.stores = IF name \in sys.disk
                              THEN CleanupStores(sys.stores, FullPath(name))
                              ELSE sys.stores,
                   !.recs = Without(sys.recs, name),
                   !.hit = FALSE,
                   !.out = [status |-> 200, success |-> TRUE]]

\* names given out by multer so far
Named(sys) == DOMAIN sys.recs \cup DOMAIN sys.stores

\* an upload reaches both services
TwinUpload(k, n, fail) ==
  /\ requests < MaxRequests
  /\ UploadName(k) \notin Named(cached) /\ \A j \in 1..(k - 1) : UploadName(j) \in Named(cached)
  /\ cached' = UploadHandler(cached, UploadName(k), n, fail)
  /\ plain' = UploadHandler(plain, UploadName(k), n, fail)
  /\ requests' = requests + 1
  /\ UNCHANGED skipped
  /\ UNCHANGED notTwinVars

\* a chat reaches both services
TwinChat(name, q, fail) ==
  /\ requests < MaxRequests
  /\ cached' = ChatHandler(cached, TRUE, name, q, fail, requests + 1, now)
  /\ plain' = ChatHandler(plain, FALSE, name, q, fail, requests + 1, now)
  /\ requests' = requests + 1
  /\ skipped' = (skipped \/ (cached'.hit /\ fail \in {"search", "generate"}))
  /\ UNCHANGED notTwinVars

\* a delete reaches both services
TwinDelete(name) ==
  /\ requests < MaxRequests
  /\ cached' = DeleteHandler(cached, name)
  /\ plain' = DeleteHandler(plain, name)
  /\ requests' = requests + 1
  /\ UNCHANGED skipped
  /\ UNCHANGED notTwinVars

\* both processes are restarted: the registry and the cache start empty
TwinRestart ==
  /\ cached.stores # <<>>
  /\ cached' = [cached EXCEPT !.stores = <<>>, !.cache = <<>>, !.hit = FALSE]
  /\ plain' = [plain EXCEPT !.stores = <<>>, !.cache = <<>>, !.hit = FALSE]
  /\ UNCHANGED <<requests, skipped>>
  /\ UNCHANGED notTwinVars

NextTwins ==
  \/ \E k \in 1..MaxDocs, fail \in {"none", "embed", "create"} :
       TwinUpload(k, MaxChunks, fail)
  \/ \E k \in 1..MaxDocs, q \in Questions,
        fail \in {"none", "search", "generate", "save"} :
       TwinChat(UploadName(k), q, fail)
  \/ \E k \in 1..MaxDocs : TwinDelete(UploadName(k))
  \/ TwinRestart
  \/ Tick

SpecTwins == InitUpload /\ [][NextTwins]_vars

\* --------------------------------- chatWithPdf's use of its chatHistory argument
\* the document both calls ask about
CallFile == "f1"

\* the store registered for the document
CallStore == FromDocuments(DocumentChunks(CallFile, MaxChunks), 1)

\* the call builds its cache key, misses the cache and sends the search
CallLookup(c) ==
  /\ calls[c].pc = "called"
  /\ calls' = [calls EXCEPT ![c].pc = "searching",
                            ![c].key = KeyFor(CallFile, calls[c].question, calls[c].hist)]
  /\ UNCHANGED notCallVars

\* the search resolves; the chain is built and invoked on its input
CallInvoke(c) ==
  /\ calls[c].pc = "searching"
  /\ LET retrieved == SimilaritySearch(CallStore, calls[c].question, TopK)
     IN  calls' = [calls EXCEPT
                     ![c].pc = "generating",
                     ![c].retrieved = retrieved,
                     ![c].prompt = PromptFor(ContextOf(CallStore, retrieved),
                                             calls[c].question, calls[c].hist)]
  /\ UNCHANGED notCallVars

NextCalls ==
  \/ \E c \in CallIds : CallLookup(c)
  \/ \E c \in CallIds : CallInvoke(c)

\* two calls with the same document and question and any two histories
InitCalls ==
  /\ InitChat /\ FreshInstall
  /\ InitUploads
  /\ InitTwins
  /\ InitAccess
  /\ InitPath(<<>>)
  /\ InitViewer
  /\ InitChatView
  /\ calls \in [CallIds -> {NewCall(q, h) : q \in Questions, h \in Histories}]
  /\ calls["A"].question = calls["B"].question

SpecCalls == InitCalls /\ [][NextCalls]_vars

\* ------------------------------------------------------------ properties
FileOf(r) == rq[r].file

Returned(r) == pc[r] \in {"saving", "done"}

IsPrefix(s, t) == Len(s) <= Len(t) /\ SubSeq(t, 1, Len(s)) = s

\* the page numbers carried by the chunks of the document
DocPages(f) == {DocumentChunks(f, numChunks[f])[i].page : i \in 1..numChunks[f]}

StrictlyAscending(s) == \A i \in 1..(Len(s) - 1) : s[i] < s[i + 1]

\* C1: concurrent chat requests for one document without an index embed the
\* document's stored chunks in exactly one pass (one index build), whatever
\* the interleaving.  Stated for a record that has stored chunks.
C1_SingleEmbeddingPass ==
  \A f \in Files : dbChunks[f] # <<>> => builds[f] <= 1

\* C2: every request that found the index missing searches the one index that
\* is registered for the document; no request searches another index.
C2_WaitersShareRegisteredIndex ==
  \A r \in Procs :
    (rq[r].missed /\ rq[r].searched # 0 /\ dbChunks[FileOf(r)] # <<>>)
      => rq[r].searched = vectorStores[FileOf(r)].id

\* C3: the registry entry of a document is absent or holds one embedded chunk
\* for every chunk of the document, and so does every index a request holds.
C3_RegistryAbsentOrComplete ==
  /\ \A f \in Files :
       vectorStores[f] = NoStore \/ Len(vectorStores[f].docs) = numChunks[f]
  /\ \A r \in Procs :
       rq[r].store = NoStore \/ Len(rq[r].store.docs) = numChunks[FileOf(r)]

\* a request took a complete index of the largest document from the registry
\* and searched it
C3_Witness ==
  \E r \in Procs :
    /\ pc[r] = "generating" /\ ~rq[r].missed
    /\ rq[r].store = vectorStores[FileOf(r)]
    /\ Len(rq[r].store.docs) = MaxChunks

\* C4: a call that starts within the time-to-live of the result an earlier call
\* stored under the same document, question and history length returns that
\* very result, and the two calls invoke the generation model at most once:
\* the later call not at all, the earlier one once.
C4_SecondCallServedFromCache ==
  \A r \in Procs :
    /\ rq[r].gen <= 1
    /\ rq[r].liveAtStart # NoEntry
         => /\ pc[r] \in {"saving", "done"}
            /\ rq[r].result = rq[r].liveAtStart.v
            /\ rq[r].gen = 0
    /\ (Returned(r) /\ rq[r].gen = 1)
         => LET key == CacheKey(FileOf(r), rq[r].question, Len(rq[r].hist))
            IN  (key \in DOMAIN cache /\ cache[key].by = rq[r].rid)
                  => cache[key].v = rq[r].result

\* a second call was answered, one or two clock steps after the first, with the
\* result the first call stored
C4_Witness ==
  \E r \in Procs :
    /\ pc[r] = "done" /\ now >= TickStep
    /\ rq[r].liveAtStart # NoEntry /\ rq[r].liveAtStart.by # rq[r].rid
    /\ rq[r].result = rq[r].liveAtStart.v

\* C5: the cache lookup is the first step of answer: a call whose key has a
\* live entry returns it without resolving the index, reading the record or
\* embedding anything.
C5_CacheLookupFirst ==
  \A r \in Procs : rq[r].liveAtStart # NoEntry => rq[r].pre = {}

\* C6: a chat request that fails at any step has appended no turn and has
\* written no cache entry.
C6_FailureLeavesNoTrace ==
  \A r \in Procs :
    pc[r] = "failed"
      => /\ \A k \in DOMAIN cache : cache[k].by # rq[r].rid
         /\ \A i \in 1..Len(chatHistory[FileOf(r)]) :
              chatHistory[FileOf(r)][i].timestamp # rq[r].rid

\* C7: a successful chat request leaves the stored history equal to the history
\* it read followed by two turns: the user turn with the request's content, then
\* the assistant turn with the answer, its sourcePages and its sources.  Stated
\* for a request during which no other request saved.
C7_TwoTurnsWithSources ==
  [][\A r \in Procs :
       (pc[r] = "saving" /\ pc'[r] = "done" /\ chatHistory[FileOf(r)] = rq[r].hist)
         => chatHistory'[FileOf(r)] =
              rq[r].hist \o <<UserTurn(rq[r].question, rq[r].rid),
                              AssistantTurn(rq[r].result, rq[r].rid)>>]_vars

\* every user turn is directly followed by the assistant turn of its request
PairedTurns(h) ==
  \A i \in 1..Len(h) :
    h[i].role = "user"
      => /\ i < Len(h)
         /\ h[i + 1].role = "assistant"
         /\ h[i + 1].timestamp = h[i].timestamp

\* the two turns appear in h, next to each other
ContainsPair(h, pair) ==
  \E i \in 1..(Len(h) - 1) : h[i] = pair[1] /\ h[i + 1] = pair[2]

\* C8: under every interleaving of chat requests on a document the stored
\* history only grows by appending, holds the turns of every successful
\* request, and every user turn is directly followed by the assistant turn of
\* the same request.
C8_HistoryAppendOnlyPaired ==
  /\ [](\A f \in Files : PairedTurns(chatHistory[f]))
  /\ [](\A r \in Procs :
          pc[r] = "done" => ContainsPair(chatHistory[FileOf(r)], rq[r].pushed))
  /\ [][\A f \in Files : IsPrefix(chatHistory[f], chatHistory'[f])]_vars

\* two overlapping requests both read the empty history and both were answered:
\* the turns of the one that saved second follow the turns of the other
C8_Witness ==
  \E r \in Procs :
    /\ pc[r] = "done" /\ rq[r].hist = <<>>
    /\ Len(chatHistory[FileOf(r)]) = 4
    /\ chatHistory[FileOf(r)][3].timestamp = rq[r].rid

\* C9: the sourcePages of every returned result are strictly ascending and each
\* is a page number carried by a chunk of the document.
C9_SourcePagesSortedAndPresent ==
  \A r \in Procs :
    Returned(r)
      => /\ StrictlyAscending(rq[r].result.sourcePages)
         /\ \A i \in 1..Len(rq[r].result.sourcePages) :
              rq[r].result.sourcePages[i] \in DocPages(FileOf(r))

\* C10: sources has min(3, n) entries, one per retrieved chunk in rank order
\* (ties in chunk order), each with the page number of its chunk, and
\* sourcePages is the set of those pages.
C10_SourcesFollowRetrieval ==
  \A r \in Procs :
    Returned(r)
      => LET f == FileOf(r)
             n == numChunks[f]
             res == rq[r].result
             chunks == DocumentChunks(f, n)
         IN  /\ Len(res.sources) = Min(3, n)
             /\ \A p \in 1..Len(res.sources) :
                  /\ RankOf(rq[r].question, n, res.sources[p].content) = p - 1
                  /\ res.sources[p].page = chunks[res.sources[p].content].page
             /\ {res.sourcePages[i] : i \in 1..Len(res.sourcePages)} =
                  {res.sources[p].page : p \in 1..Len(res.sources)}

\* C14: on a registry miss the index is built from the record's chunks,
\* without reading the raw file, when the record has at least one chunk; the
\* raw file is ingested only when the record has no chunks; on a registry hit
\* the call reads neither the record nor the raw file.
C14_RebuildFromRecordFirst ==
  \A r \in Procs :
    LET f == FileOf(r)
        loc == rq[r]
    IN  /\ pc[r] \in {"ingest_read", "ingest_embed"}
          => loc.missed /\ f \in records /\ dbChunks[f] = <<>>
        /\ "file" \in loc.pre
          => loc.missed /\ dbChunks[f] = <<>>
                        /\ loc.docs = DocumentChunks(f, numChunks[f])
        /\ (pc[r] = "embedding" /\ dbChunks[f] # <<>>)
          => loc.missed /\ loc.docs = dbChunks[f] /\ "file" \notin loc.pre
        /\ (pc[r] \in Awaiting /\ pc[r] # "route_find" /\ ~loc.missed)
          => loc.pre = {"registry"}

\* a call that missed the registry is embedding the chunks of the record and has
\* not read the file; another has read the file of a record without chunks
C14_Witness ==
  \E r \in Procs :
    /\ pc[r] = "embedding" /\ rq[r].missed
    /\ rq[r].docs = dbChunks[FileOf(r)] /\ rq[r].docs # <<>>
    /\ rq[r].pre = {"registry", "record", "embed"}

\* searches and generations sent by each call so far
SentOnce ==
  \A r \in Procs :
    LET loc == rq[r]
    IN  /\ loc.nsearch <= 1 /\ loc.gen <= 1
        /\ pc[r] \in {"searching", "generating"} => loc.nsearch = 1
        /\ pc[r] = "generating" => loc.gen = 1
        /\ (pc[r] = "saving" /\ ~loc.look.hit) => loc.nsearch = 1 /\ loc.gen = 1
        /\ (pc[r] = "saving" /\ loc.look.hit) => loc.nsearch = 0 /\ loc.gen = 0

\* a step of a call that is building, searching or generating either moves the
\* call forward or ends it
ForwardOrFailed ==
  \A r \in Procs :
    /\ pc[r] \in {"ingest_embed", "embedding"}
         => pc'[r] \in {pc[r], "embedding", "searching", "saving", "failed"}
    /\ pc[r] = "searching" => pc'[r] \in {"searching", "generating", "failed"}
    /\ pc[r] = "generating" => pc'[r] \in {"generating", "saving", "failed"}

\* C20: a call that misses the cache sends one similarity search and one
\* generation; when the index build, the search or the generation fails the
\* call fails, and none of them is sent again.
C20_OneSearchOneGeneration == []SentOnce /\ [][ForwardOrFailed]_vars

\* a call that missed the cache has returned after one search and one generation
C20_Witness ==
  \E r \in Procs :
    /\ pc[r] = "saving" /\ ~rq[r].look.hit
    /\ rq[r].nsearch = 1 /\ rq[r].gen = 1

\* one hour, in seconds
OneHour == 3600

\* C12 as stated: the entry stored at t under the looked-up key is returned by
\* a lookup before t + 1 hour and absent for a lookup at or after t + 1 hour.
C12_AbsentFromOneHourOn ==
  \A r \in Procs :
    rq[r].look.age >= 0 => (rq[r].look.hit <=> rq[r].look.age < OneHour)

\* C12 amended: the entry stored at t is returned by every lookup of its key up
\* to and including t + 1 hour and absent for every later lookup; a call that
\* finds it absent searches and generates again.
C12_AbsentAfterOneHour ==
  \A r \in Procs :
    rq[r].look.age >= 0
      => /\ rq[r].look.hit <=> rq[r].look.age <= OneHour
         /\ rq[r].look.hit => pc[r] = "saving" /\ rq[r].gen = 0
         /\ ~rq[r].look.hit => pc[r] \in {"searching", "generating", "saving"}
         /\ (~rq[r].look.hit /\ pc[r] = "saving") => rq[r].gen = 1

\* a lookup exactly one hour after the entry was stored has returned it
C12_Witness ==
  \E r \in Procs :
    rq[r].look.age = OneHour /\ rq[r].look.hit /\ pc[r] = "saving"

\* C18: a call is served by a cache entry only if the entry was stored for the
\* same document, the same question and the same history length; a call whose
\* history holds the turns of an earlier successful chat is not served by the
\* entry that chat stored.
C18_SameDocQuestionLength ==
  \A r \in Procs :
    rq[r].look.hit
      => /\ rq[r].look.ask = <<FileOf(r), rq[r].question, Len(rq[r].hist)>>
         /\ \A i \in 1..Len(rq[r].hist) : rq[r].hist[i].timestamp # rq[r].look.by

\* after a successful chat a second call with the same question has missed the
\* cache while the entry of the first chat is still stored and live
C18_Witness ==
  \E r \in Procs :
    LET f == FileOf(r)
        old == CacheKey(f, rq[r].question, 0)
    IN  /\ pc[r] \in {"searching", "generating"} /\ ~rq[r].look.hit
        /\ Len(rq[r].hist) = 2 /\ rq[r].hist[1].content = rq[r].question
        /\ old \in DOMAIN cache /\ ~Expired(cache[old], now)
        /\ cache[old].by = rq[r].hist[1].timestamp

\* C15: a call answered on an index rebuilt from the record's chunks returns
\* the retrieved chunks, the sourcePages and the page number of every sources
\* entry that the same call returns on the index built by ingestion.
C15_RebuiltIndexSameAnswer ==
  \A r \in Procs :
    (pc[r] = "saving" /\ ~rq[r].look.hit /\ rq[r].missed)
      => LET f == FileOf(r)
             loc == rq[r]
             ingested == FromDocuments(DocumentChunks(f, numChunks[f]), loc.store.id)
             retrieved == SimilaritySearch(ingested, loc.question, TopK)
             expected == BuildResult(ingested, retrieved, loc.result.answer)
         IN  /\ loc.retrieved = retrieved
             /\ loc.result.sourcePages = expected.sourcePages
             /\ Len(loc.result.sources) = Len(expected.sources)
             /\ \A p \in 1..Len(expected.sources) :
                  loc.result.sources[p].page = expected.sources[p].page

\* C11: an upload whose embedding call fails is answered with an error, and
\* afterwards there is no record for its file and no index under its name.
C11_EmbeddingFailureLeavesNothing ==
  \A k \in DOMAIN uploaded :
    uploaded[k].cause = "embedding"
      => /\ uploaded[k].status = 500
         /\ uploaded[k].file \notin DOMAIN upRecords
         /\ uploaded[k].file \notin DOMAIN upStores

\* an upload failed in the embedding call after another upload had succeeded
C11_Witness ==
  \E k, j \in DOMAIN uploaded :
    /\ uploaded[k].cause = "embedding"
    /\ j < k /\ uploaded[j].status = 200 /\ uploaded[j].file \in DOMAIN upStores

\* the chunk lists ingestion has produced: those returned by processPdf and the
\* one being built
IngestedLists ==
  {uploaded[k].chunks : k \in DOMAIN uploaded} \cup {upl.results}

\* C16: every chunk produced by ingestion has a page number that is an integer
\* of at least 1, and page numbers never decrease along the chunk order.
C16_PagesPositiveAscending ==
  \A c \in IngestedLists :
    /\ \A i \in 1..Len(c) :
         /\ c[i].pageNumber \in Nat /\ c[i].pageNumber >= 1
         /\ c[i].page \in Nat /\ c[i].page >= 1
    /\ \A i, j \in 1..Len(c) :
         i < j => c[i].pageNumber <= c[j].pageNumber /\ c[i].page <= c[j].page

\* an ingestion that took more than one batch has returned its chunks
C16_Witness ==
  \E k \in DOMAIN uploaded :
    /\ Len(uploaded[k].chunks) > BatchSize
    /\ uploaded[k].chunks[Len(uploaded[k].chunks)].page > 1

\* the page numbers of a chunk list, in order
PagesOf(c) == [i \in 1..Len(c) |-> <<c[i].pageNumber, c[i].page>>]

\* C17: two ingestions of the same bytes return the same number of chunks with
\* the same page numbers at every position, whatever was ingested or searched
\* between them.
C17_IngestionRepeatable ==
  \A a, b \in DOMAIN uploaded :
    (uploaded[a].n = uploaded[b].n /\ uploaded[a].chunks # <<>>
                                   /\ uploaded[b].chunks # <<>>)
      => /\ Len(uploaded[a].chunks) = Len(uploaded[b].chunks)
         /\ PagesOf(uploaded[a].chunks) = PagesOf(uploaded[b].chunks)

\* the same bytes were ingested twice, with another document ingested and a
\* search made in between
C17_Witness ==
  \E a, b, c \in DOMAIN uploaded :
    /\ a < c /\ c < b
    /\ uploaded[a].n = uploaded[b].n /\ uploaded[c].n # uploaded[a].n
    /\ uploaded[a].chunks # <<>> /\ uploaded[b].chunks # <<>>
    /\ uploaded[c].chunks # <<>>
    /\ lastSearch.file = uploaded[c].file

\* C19: two calls with the same document and question and histories of equal
\* length but different contents build the same cache key and give the chain
\* the same input, which holds the retrieved context and the question only.
C19_HistoryOnlyByLength ==
  LET a == calls["A"]
      b == calls["B"]
  IN  /\ (a.hist # b.hist /\ Len(a.hist) = Len(b.hist))
        => /\ (a.pc # "called" /\ b.pc # "called") => a.key = b.key
           /\ (a.pc = "generating" /\ b.pc = "generating") => a.prompt = b.prompt
      /\ \A c \in CallIds :
           calls[c].pc = "generating"
             => /\ DOMAIN calls[c].prompt = {"context", "question"}
                /\ calls[c].prompt.context = ContextOf(CallStore, calls[c].retrieved)
                /\ calls[c].prompt.question = calls[c].question

\* both calls have invoked the chain, one with a history of two turns and the
\* other with two different turns
C19_Witness ==
  /\ calls["A"].pc = "generating" /\ calls["B"].pc = "generating"
  /\ Len(calls["A"].hist) = 2 /\ Len(calls["B"].hist) = 2
  /\ calls["A"].hist[1] # calls["B"].hist[1]
  /\ calls["A"].hist[2] # calls["B"].hist[2]

\* what a client can see of the two services: the latest response and the
\* records with their histories
SameOutcome ==
  /\ cached.out = plain.out
  /\ cached.recs = plain.recs

C25_OneBuildWhenAlone ==
  \A r \in Procs :
    (rq[r].rid = 1 /\ nextRid = 2 /\ rq[r].missed
       /\ pc[r] \in {"searching", "generating", "saving"})
      => builds[FileOf(r)] = 1

\* the uploads that ended in failure after multer had stored the raw file
FailedAfterStoring ==
  {k \in DOMAIN uploaded :
     uploaded[k].cause \in {"user", "parsing", "embedding", "create"}}

\* C21: when an upload that has stored a raw file ends in failure (no user id,
\* ingestion failure, record creation failure), cleanupFile has been called
\* for the file before the answer, the file is gone unless fs.unlink failed,
\* and no record refers to the file.
C21_FailedUploadCleansFile ==
  \A k \in FailedAfterStoring :
    /\ uploaded[k].status >= 400
    /\ uploaded[k].unlinked # "not called"
    /\ uploaded[k].unlinked = "yes" => uploaded[k].file \notin upDisk
    /\ uploaded[k].file \notin DOMAIN upRecords

\* an upload failed at PdfDocument.create and its file has been removed
C21_Witness ==
  \E k \in FailedAfterStoring :
    /\ uploaded[k].cause = "create" /\ uploaded[k].status = 500
    /\ uploaded[k].unlinked = "yes" /\ uploaded[k].file \notin upDisk

\* C22: a file whose declared type is not application/pdf or whose size is
\* above 10 * 1024 * 1024 bytes is never handed to processPdf and gets no
\* record; its upload is answered with an error.
C22_OnlySmallPdfsIngested ==
  /\ \A k \in DOMAIN uploaded :
       (uploaded[k].type # "application/pdf" \/ uploaded[k].size > 10 * 1024 * 1024)
         => /\ uploaded[k].status >= 400
            /\ uploaded[k].cause \in {"front", "multer"}
            /\ uploaded[k].chunks = <<>>
            /\ uploaded[k].file \notin DOMAIN upRecords
            /\ uploaded[k].file \notin DOMAIN upStores
  /\ upl.pc # "idle"
       => upl.type = "application/pdf" /\ upl.size <= 10 * 1024 * 1024

\* a file one byte above the limit was refused by multer and a file of exactly
\* the limit was ingested
C22_Witness ==
  \E k, j \in DOMAIN uploaded :
    /\ uploaded[k].size > FileSizeLimit /\ uploaded[k].cause = "multer"
    /\ uploaded[j].size = FileSizeLimit /\ uploaded[j].status = 200

\* C23: cleanupFile returns normally also when fs.unlink fails, so the request
\* that called it is answered as if the cleanup had worked: a failed upload
\* with its own error, a delete with success.
C23_CleanupNeverRaises ==
  \A k \in DOMAIN uploaded :
    uploaded[k].unlinked = "failed"
      => /\ uploaded[k].error = uploaded[k].cause
         /\ uploaded[k].status = (CASE uploaded[k].cause = "user" -> 400
                                    [] uploaded[k].cause = "none" -> 200
                                    [] OTHER -> 500)
         /\ uploaded[k].cause = "none" => uploaded[k].deleted

\* fs.unlink failed during the cleanup of an upload whose embedding had failed;
\* the answer carries the embedding error and the file is still there
C23_Witness ==
  \E k \in DOMAIN uploaded :
    /\ uploaded[k].unlinked = "failed" /\ uploaded[k].cause = "embedding"
    /\ uploaded[k].error = "embedding" /\ uploaded[k].file \in upDisk

\* C24: every chunk of an ingestion has a page number between 1 and the
\* pageCount the ingestion returned.
C24_PagesWithinPageCount ==
  \A k \in DOMAIN uploaded :
    \A i \in 1..Len(uploaded[k].chunks) :
      /\ 1 <= uploaded[k].chunks[i].pageNumber
      /\ uploaded[k].chunks[i].pageNumber <= uploaded[k].pageCount
      /\ 1 <= uploaded[k].chunks[i].page
      /\ uploaded[k].chunks[i].page <= uploaded[k].pageCount

\* C26: once cleanupFile has removed the file of an upload, the registry has
\* no entry under the file's name.
C26_NoIndexAfterCleanup ==
  \A k \in DOMAIN uploaded :
    uploaded[k].unlinked = "yes" => uploaded[k].file \notin DOMAIN upStores

\* ------------------------------------- the routes and the x-user-id header
Users == {"u1", "u2"}
Headers == Users \cup {NoUser}

FindOneAnyUser(sys, own, name, userId) ==
  name \in DOMAIN sys.recs

\* PdfDocument.findOne({ _id, userId }): a record with this id and this owner
FindOne(sys, own, name, userId) ==
  name \in DOMAIN sys.recs /\ own[name] = userId

\* the opening of the four routes: the header, then the record of this owner
Guarded(sys, own, userId, name, handled) ==
  IF userId = NoUser
  THEN [sys EXCEPT !.out = Error(400, "User ID is required"), !.hit = FALSE]
  ELSE IF ~FindOne(sys, own, name, userId)
  THEN [sys EXCEPT !.out = Error(404, "not found"), !.hit = FALSE]
  ELSE handled

\* GET /:id after the record is found
GetHandler(sys, name) ==
  IF name \notin sys.disk
  THEN [sys EXCEPT !.out = Error(404, "not found"), !.hit = FALSE]
  ELSE [sys EXCEPT !.out = [status |-> 200, sendFile |-> FullPath(name)],
                   !.hit = FALSE]

\* GET /:documentId/history after the record is found
HistoryHandler(sys, name) ==
  [sys EXCEPT !.out = [status |-> 200,
                       chatHistory |-> sys.recs[name].chatHistory],
              !.hit = FALSE]

Request(op, userId, name) ==
  [op |-> op, userId |-> userId, name |-> name, n |-> lastReq.n + 1]

Received(op, userId, name) ==
  /\ lastReq.n < MaxAccess
  /\ lastReq' = Request(op, userId, name)
  /\ finds' = IF userId = NoUser \/ op = "upload" THEN finds ELSE finds + 1
  /\ UNCHANGED notAccessVars

\* POST /upload with the header: without it the stored file is cleaned up
AccessUpload(k, userId, fail) ==
  /\ UploadName(k) \notin Named(service)
  /\ \A j \in 1..(k - 1) : UploadName(j) \in Named(service)
  /\ Received("upload", userId, UploadName(k))
  /\ service' = IF userId = NoUser
                THEN [service EXCEPT
                        !.out = Error(400, "User ID is required"), !.hit = FALSE]
                ELSE UploadHandler(service, UploadName(k), MaxChunks, fail)
  /\ owners' = IF UploadName(k) \in DOMAIN service'.recs
               THEN With(owners, UploadName(k), userId)
               ELSE owners

AccessGet(userId, name) ==
  /\ Received("get", userId, name)
  /\ service' = Guarded(service, owners, userId, name, GetHandler(service, name))
  /\ UNCHANGED owners

AccessChat(userId, name, q, fail) ==
  /\ Received("chat", userId, name)
  /\ service' = Guarded(service, owners, userId, name,
                        ChatHandler(service, TRUE, name, q, fail,
                                    lastReq.n + 1, now))
  /\ UNCHANGED owners

AccessHistory(userId, name) ==
  /\ Received("history", userId, name)
  /\ service' = Guarded(service, owners, userId, name,
                        HistoryHandler(service, name))
  /\ UNCHANGED owners

AccessDelete(userId, name) ==
  /\ Received("delete", userId, name)
  /\ service' = Guarded(service, owners, userId, name,
                        DeleteHandler(service, name))
  /\ owners' = IF name \in DOMAIN service'.recs THEN owners
               ELSE Without(owners, name)

NextAccess ==
  \/ \E k \in 1..MaxDocs, u \in Headers, fail \in {"none", "create"} :
       AccessUpload(k, u, fail)
  \/ \E k \in 1..MaxDocs, u \in Headers : AccessGet(u, UploadName(k))
  \/ \E k \in 1..MaxDocs, u \in Headers, q \in Questions,
        fail \in {"none", "save"} :
       AccessChat(u, UploadName(k), q, fail)
  \/ \E k \in 1..MaxDocs, u \in Headers : AccessHistory(u, UploadName(k))
  \/ \E k \in 1..MaxDocs, u \in Headers : AccessDelete(u, UploadName(k))

SpecAccess == InitUpload /\ [][NextAccess]_vars

\* the request r comes from a user who is not the owner of its document
NotOwner(r) ==
  /\ r.userId # NoUser
  /\ r.name \in DOMAIN service.recs
  /\ owners[r.name] # r.userId

\* the step leaves every record with its history, every raw file, the registry
\* and the cache as they were
Untouched ==
  /\ service'.recs = service.recs
  /\ owners' = owners
  /\ service'.disk = service.disk
  /\ service'.stores = service.stores
  /\ service'.cache = service.cache

\* C27: a get, chat, history or delete request of a user who does not own the
\* document is answered 'not found' and changes no record, history, file,
\* registry entry or cache entry; a request without a user id is rejected
\* before any findOne and changes nothing either.
C27_OnlyOwnerReaches ==
  [][lastReq'.op \in {"get", "chat", "history", "delete"}
       => /\ NotOwner(lastReq')
             => service'.out = Error(404, "not found") /\ Untouched
          /\ lastReq'.userId = NoUser
             => /\ service'.out.status = 400
                /\ Untouched
                /\ finds' = finds]_vars

\* a user asked to delete a document of another user that had a registered
\* store, a cached answer and a history, and was answered 'not found'
C27_Witness ==
  /\ lastReq.op = "delete"
  /\ lastReq.userId # NoUser
  /\ lastReq.name \in DOMAIN service.recs
  /\ owners[lastReq.name] # lastReq.userId
  /\ service.out.status = 404
  /\ lastReq.name \in DOMAIN service.stores
  /\ lastReq.name \in service.disk
  /\ service.cache # <<>>
  /\ service.recs[lastReq.name].chatHistory # <<>>

\* ------------------------------------------------ processPdf and its path
\* paths are sequences of characters; "u" stands for the name "uploads", and
\* the process runs in the root directory
PathChars == {"/", ".", "u", "p"}
cwd == <<"/">>
uploadsDir == cwd \o <<"u">>

RECURSIVE AllPaths(_)
AllPaths(n) ==
  IF n = 0 THEN {<<>>}
  ELSE LET shorter == AllPaths(n - 1)
       IN  shorter \cup {Append(q, c) : q \in {r \in shorter : Len(r) = n - 1},
                                        c \in PathChars}

\* the segments of a path between its separators, empty ones left out
RECURSIVE Segments(_, _)
Segments(path, seg) ==
  IF path = <<>> THEN (IF seg = <<>> THEN <<>> ELSE <<seg>>)
  ELSE IF Head(path) = "/"
  THEN (IF seg = <<>> THEN <<>> ELSE <<seg>>) \o Segments(Tail(path), <<>>)
  ELSE Segments(Tail(path), Append(seg, Head(path)))

Dot == <<".">>
DotDot == <<".", ".">>

\* "." is dropped and ".." takes the segment before it away; above the root
\* ".." is dropped, at the start of a relative path it stays
RECURSIVE NormalizeString(_, _, _)
NormalizeString(segs, out, isAbsolute) ==
  IF segs = <<>> THEN out
  ELSE LET seg == Head(segs)
           rest == Tail(segs)
       IN  IF seg = Dot THEN NormalizeString(rest, out, isAbsolute)
           ELSE IF seg = DotDot
           THEN IF out # <<>> /\ out[Len(out)] # DotDot
                THEN NormalizeString(rest, SubSeq(out, 1, Len(out) - 1), isAbsolute)
                ELSE IF isAbsolute
                THEN NormalizeString(rest, out, isAbsolute)
                ELSE NormalizeString(rest, Append(out, seg), isAbsolute)
           ELSE NormalizeString(rest, Append(out, seg), isAbsolute)

RECURSIVE Join(_)
Join(segs) ==
  IF segs = <<>> THEN <<>>
  ELSE IF Len(segs) = 1 THEN Head(segs)
  ELSE Head(segs) \o <<"/">> \o Join(Tail(segs))

\* path.normalize of node's posix module
Normalize(path) ==
  IF path = <<>> THEN Dot
  ELSE LET isAbsolute == Head(path) = "/"
           trailingSeparator == path[Len(path)] = "/"
           joined == Join(NormalizeString(Segments(path, <<>>), <<>>, isAbsolute))
       IN  IF joined = <<>>
           THEN IF isAbsolute THEN <<"/">>
                ELSE IF trailingSeparator THEN <<".", "/">> ELSE Dot
           ELSE LET closed == IF trailingSeparator THEN Append(joined, "/")
                              ELSE joined
                IN  IF isAbsolute THEN <<"/">> \o closed ELSE closed

\* String.prototype.startsWith
StartsWith(str, prefix) ==
  Len(str) >= Len(prefix) /\ SubSeq(str, 1, Len(prefix)) = prefix

\* path.basename
Basename(path) ==
  LET segs == Segments(path, <<>>)
  IN  IF segs = <<>> THEN <<>> ELSE segs[Len(segs)]

normalizedPath == Normalize(filePath)
uploadsPath == Normalize(uploadsDir)

\* processPdf up to the path check
PathCheck ==
  /\ pathPc = "called"
  /\ pathPc' = IF ~StartsWith(normalizedPath, uploadsPath)
               THEN "invalid path" ELSE "access"
  /\ UNCHANGED <<filePath, fsAccessed, pathStores>>
  /\ UNCHANGED notPathVars

\* await fs.access(normalizedPath)
PathAccess(exists) ==
  /\ pathPc = "access"
  /\ fsAccessed' = fsAccessed \cup {normalizedPath}
  /\ pathPc' = IF exists THEN "read" ELSE "not found"
  /\ UNCHANGED <<filePath, pathStores>>
  /\ UNCHANGED notPathVars

\* fs.readFile, pdfParse, the embedding and vectorStores.set
PathRead(ok) ==
  /\ pathPc = "read"
  /\ pathPc' = IF ok THEN "done" ELSE "failed"
  /\ pathStores' = IF ok THEN pathStores \cup {Basename(normalizedPath)}
                   ELSE pathStores
  /\ UNCHANGED <<filePath, fsAccessed>>
  /\ UNCHANGED notPathVars

NextPaths ==
  \/ PathCheck
  \/ \E exists \in BOOLEAN : PathAccess(exists)
  \/ \E ok \in BOOLEAN : PathRead(ok)

InitPaths ==
  /\ InitChat /\ FreshInstall
  /\ InitUploads
  /\ InitTwins
  /\ InitAccess
  /\ InitViewer
  /\ InitChatView
  /\ calls = [c \in CallIds |-> NewCall("qa", <<>>)]
  /\ \E p \in AllPaths(MaxPath) : InitPath(p)

SpecPaths == InitPaths /\ [][NextPaths]_vars

\* the normalized path names the uploads directory or something below it
InsideUploads(path) ==
  LET segs == Segments(Normalize(path), <<>>)
  IN  /\ path # <<>> /\ Head(path) = "/"
      /\ segs # <<>> /\ segs[1] = <<"u">>

\* C28: processPdf reaches fs.access only for a path that normalizes to a place
\* inside the uploads directory; for any other path, a sibling directory whose
\* name begins with "uploads" included, it fails at the check, before any file
\* access, and registers nothing.
C28_OnlyInsideUploads ==
  /\ pathPc \in {"access", "not found", "read", "done", "failed"}
       => InsideUploads(filePath)
  /\ pathPc # "called" /\ ~InsideUploads(filePath)
       => pathPc = "invalid path" /\ fsAccessed = {} /\ pathStores = {}

\* -------------------------------------------------- the PdfViewer component
\* the page numbers the chunks of an ingestion can carry: the parent jumps to
\* sourcePages[0] of the latest answer
SourcePages == 1..InitialChunk(UploadName(0), MaxSplit - 1).pageNumber

\* the effect on [currentPage], run after the parent has set page: the viewer
\* follows the parent
SyncWithParent(page, shown) ==
  IF page # 0 /\ page # shown THEN page ELSE shown

\* onDocumentLoadSuccess({ numPages: n })
OnDocumentLoadSuccess(n) ==
  /\ error = null
  /\ numPages' = n
  /\ error' = null
  /\ IF pageNumber > n
     THEN pageNumber' = 1 /\ currentPage' = 1
     ELSE UNCHANGED <<pageNumber, currentPage>>
  /\ UNCHANGED viewerKey
  /\ UNCHANGED notViewerVars

\* onDocumentLoadError
OnDocumentLoadError ==
  /\ error = null
  /\ error' = "Failed to load PDF file."
  /\ UNCHANGED <<numPages, pageNumber, currentPage, viewerKey>>
  /\ UNCHANGED notViewerVars

\* handleRetry: the document is mounted again
HandleRetry ==
  /\ error # null
  /\ viewerKey < MaxRetries
  /\ error' = null
  /\ viewerKey' = viewerKey + 1
  /\ UNCHANGED <<numPages, pageNumber, currentPage>>
  /\ UNCHANGED notViewerVars

\* a click on Previous (offset -1) or Next (offset 1), when the button is
\* not disabled
HandlePageChange(offset) ==
  /\ error = null
  /\ IF offset < 0 THEN ~(pageNumber <= 1) ELSE ~(pageNumber >= numPages)
  /\ LET newPage == pageNumber + offset
     IN  IF newPage >= 1 /\ newPage <= numPages
         THEN pageNumber' = newPage /\ currentPage' = newPage
         ELSE UNCHANGED <<pageNumber, currentPage>>
  /\ UNCHANGED <<numPages, error, viewerKey>>
  /\ UNCHANGED notViewerVars

\* PdfChat: setCurrentPage(lastMessage.sourcePages[0]) after an answer, and
\* the viewer's effect on [currentPage]
SetCurrentPage(page) ==
  /\ page # currentPage
  /\ currentPage' = page
  /\ pageNumber' = SyncWithParent(page, pageNumber)
  /\ UNCHANGED <<numPages, error, viewerKey>>
  /\ UNCHANGED notViewerVars

NextViewer ==
  \/ \E n \in 1..MaxPages : OnDocumentLoadSuccess(n)
  \/ OnDocumentLoadError
  \/ HandleRetry
  \/ \E offset \in {-1, 1} : HandlePageChange(offset)
  \/ \E page \in SourcePages : SetCurrentPage(page)

SpecViewer == InitUpload /\ [][NextViewer]_vars

\* C29: once a document with at least one page is loaded, the page the viewer
\* shows is one of 1..numPages, whatever clicks, reloads and updates of the
\* parent's currentPage have happened.
C29_PageWithinDocument ==
  numPages >= 1 => (1 <= pageNumber /\ pageNumber <= numPages)

\* ---------------------------------------- the PdfChat component's chat form
\* texts the user can have in the input field
Inputs == {"", " ", "qa"}

\* String.prototype.trim on these texts
Trim(text) == IF text = " " THEN "" ELSE text

Ran(kind) == event' = [kind |-> kind, n |-> event.n + 1]

\* the user can still act
Acting == event.n < MaxEvents

InputNeverDisabled == FALSE

\* <Input disabled={loading}>
InputDisabled == loading

\* onInputChange from the input field
OnInputChange(text) ==
  /\ ~InputDisabled
  /\ text # input
  /\ Acting
  /\ Ran("input")
  /\ input' = text
  /\ UNCHANGED <<session, loading, messages, pending, serverHistory>>
  /\ UNCHANGED <<notViewVars, viewerVars>>

\* useSession: the user signs in or out
SessionChange(user) ==
  /\ user # session
  /\ Acting
  /\ Ran("session")
  /\ session' = user
  /\ UNCHANGED <<input, loading, messages, pending, serverHistory>>
  /\ UNCHANGED <<notViewVars, viewerVars>>

\* handleSubmit up to the fetch
HandleSubmit ==
  /\ Acting
  /\ Ran("submit")
  /\ IF Trim(input) = "" \/ session = null
     THEN UNCHANGED <<input, loading, pending>>
     ELSE /\ input' = ""
          /\ loading' = TRUE
          /\ pending' = pending + 1
  /\ UNCHANGED <<session, messages, serverHistory>>
  /\ UNCHANGED <<notViewVars, viewerVars>>

ResponseKinds == {"ok", "not ok", "rejected", "bad json", "no history"}

\* handleSubmit after the fetch has settled: the response, catch and finally.
\* page is sourcePages[0] of the last message, 0 when it has none
Settle(kind, page) ==
  /\ pending > 0
  /\ Ran(kind)
  /\ pending' = pending - 1
  /\ loading' = FALSE
  /\ IF kind = "ok"
     THEN /\ serverHistory' = serverHistory
                                \o <<[role |-> "user", n |-> event.n],
                                     [role |-> "assistant", n |-> event.n]>>
          /\ messages' = serverHistory'
          /\ IF page # 0
             THEN /\ currentPage' = page
                  /\ pageNumber' = IF page # currentPage
                                   THEN SyncWithParent(page, pageNumber)
                                   ELSE pageNumber
             ELSE UNCHANGED <<currentPage, pageNumber>>
     ELSE UNCHANGED <<serverHistory, messages, currentPage, pageNumber>>
  /\ UNCHANGED <<input, session, numPages, error, viewerKey>>
  /\ UNCHANGED notViewVars

Settles == \E kind \in ResponseKinds, page \in {0, 1, 2} : Settle(kind, page)

NextChatView ==
  \/ \E text \in Inputs : OnInputChange(text)
  \/ \E user \in {"u1", null} : SessionChange(user)
  \/ HandleSubmit
  \/ Settles

\* a request sent by fetch settles: it is answered, or it fails
SpecChatView == InitUpload /\ [][NextChatView]_vars /\ WF_vars(Settles)

\* loading is true exactly while a request is in flight, and there is never
\* more than one
LoadingWhileInFlight ==
  /\ loading <=> pending > 0
  /\ pending <= 1

\* what a run of handleSubmit and a settled request may change
SubmitAndSettleSteps ==
  /\ event'.kind = "submit" /\ (Trim(input) = "" \/ session = null)
       => UNCHANGED <<input, session, loading, messages, pending,
                      serverHistory, viewerVars>>
  /\ event'.kind = "submit" /\ loading
       => pending' = pending
  /\ event'.kind = "submit" /\ Trim(input) # "" /\ session # null
       => pending' = pending + 1 /\ loading'
  /\ event'.kind \in ResponseKinds
       => ~loading'
  /\ event'.kind \in ResponseKinds \ {"ok"}
       => messages' = messages

\* C30: a submit with blank input or without a signed-in user sends nothing and
\* changes nothing; otherwise loading is true exactly while the request is in
\* flight, no second request is sent while it is true, it always returns to
\* false, and a failed request leaves the message list as it was.
C30_LoadingFollowsRequest ==
  /\ []LoadingWhileInFlight
  /\ [][SubmitAndSettleSteps]_vars
  /\ (loading ~> ~loading)

\* a request failed after an earlier one had succeeded: the answer of the
\* first is still shown and loading is false again
C30_Witness ==
  /\ event.kind \in ResponseKinds \ {"ok"}
  /\ ~loading
  /\ messages # <<>>
  /\ messages = serverHistory

====
